---- MODULE Spec2Model ----
(***************************************************************************)
(* Model of the product-image pipeline of the POS backend:                 *)
(*   - ImageProcessor (imageProcessor.js): detectSubjectRegion,            *)
(*     detectEdges, findSubjectRegion, processImage, processImageInPlace;  *)
(*   - the two upload handlers of server.js that call processImageInPlace  *)
(*     (POST /api/products, PUT /api/products/:id) and DELETE.             *)
(*                                                                         *)
(* Five specifications share the module:                                   *)
(*   SpecRegion  findSubjectRegion applied to bounded edge maps;           *)
(*   SpecDetect  one call of detectSubjectRegion on a bounded source image;*)
(*   Spec        the upload handlers and the in-place pipeline over a      *)
(*               small file system;                                        *)
(*   SpecEdges   detectEdges applied to small rasters;                     *)
(*   SpecSizes   the analysis dimensions and the crop box computed from    *)
(*               the width and height of a source.                         *)
(*                                                                         *)
(* Numbers.  The code computes in IEEE doubles; the model computes in      *)
(* integers.  Each floating-point expression is modelled by the integer    *)
(* expression that has the same value on the inputs the model draws; where *)
(* the double result differs from the exact one (m * 0.7 for some m) the   *)
(* model follows the double.  Scores are kept in thousandths of a point.   *)
(***************************************************************************)
EXTENDS Integers, Sequences, FiniteSets, Bags, TLC

Max(a, b) == IF a > b THEN a ELSE b
Min(a, b) == IF a < b THEN a ELSE b

\* floor(n * 10^digits / d) for 0 <= n, 0 < d, without leaving 32 bits.
RECURSIVE Pow10(_)
Pow10(k) == IF k = 0 THEN 1 ELSE 10 * Pow10(k - 1)
RECURSIVE FracDigits(_, _, _)
FracDigits(r, d, digits) ==
  IF digits = 0 THEN 0
  ELSE ((r * 10) \div d) * Pow10(digits - 1) + FracDigits((r * 10) % d, d, digits - 1)
ScaledDiv(n, d, digits) == (n \div d) * Pow10(digits) + FracDigits(n % d, d, digits)

\* floor(sqrt(n)), by bisection on lo <= sqrt(n) < hi.
RECURSIVE SqrtBetween(_, _, _)
SqrtBetween(n, lo, hi) ==
  IF hi - lo <= 1 THEN lo
  ELSE LET mid == (lo + hi) \div 2
       IN IF mid * mid <= n THEN SqrtBetween(n, mid, hi) ELSE SqrtBetween(n, lo, mid)
ISqrt(n) == SqrtBetween(n, 0, 46341)

(***************************************************************************)
(* ImageProcessor constants (constructor) and the literals of the methods. *)
(***************************************************************************)
TARGET_SIZE == 500
\* PADDING_RATIO = 0.1, kept as a percentage
PADDING_PERCENT == 10
analysisSize == 400
MinWindow == 50
StrongEdgeThreshold == 100
\* maxScore < 50, in thousandths
FallbackThresholdMilli == 50000
JpegQuality == 92

(***************************************************************************)
(* detectEdges: the 3x3 Sobel operator over a raster given as a function   *)
(* on 0 .. width*height-1 (a byte buffer).  The result is a Uint8Array:    *)
(* it starts all 0, only interior cells are assigned, and a store          *)
(* truncates Math.min(255, magnitude) to an integer.                       *)
(***************************************************************************)
\* the horizontal kernel without the weight 2 of the middle row
sobelX_Unweighted == <<-1, 0, 1, -1, 0, 1, -1, 0, 1>>
\* const sobelX, const sobelY
sobelX == <<-1, 0, 1, -2, 0, 2, -1, 0, 1>>
sobelY == <<-1, -2, -1, 0, 0, 0, 1, 2, 1>>

Kernel == {<<kx, ky>> : kx \in -1..1, ky \in -1..1}

RECURSIVE SumOver(_, _, _)
\* sum of term[k] over the finite set ks, one element at a time
SumOver(term, ks, n) ==
  IF ks = {} THEN n
  ELSE LET k == CHOOSE e \in ks : TRUE
       IN SumOver(term, ks \ {k}, n + term[k])

Gradient(imageData, width, x, y, kernel) ==
  SumOver([k \in Kernel |->
             imageData[(y + k[2]) * width + (x + k[1])] * kernel[(k[2] + 1) * 3 + (k[1] + 1) + 1]],
          Kernel, 0)

\* the magnitude stored without Math.min(255, ...)
EdgeValue_NoClamp(imageData, width, x, y) ==
  LET gx == Gradient(imageData, width, x, y, sobelX)
      gy == Gradient(imageData, width, x, y, sobelY)
  IN ISqrt(gx * gx + gy * gy)
\* Math.sqrt(gx * gx + gy * gy), Math.min(255, magnitude), stored in a Uint8Array
EdgeValue(imageData, width, x, y) ==
  LET gx == Gradient(imageData, width, x, y, sobelX)
      gy == Gradient(imageData, width, x, y, sobelY)
      sq == gx * gx + gy * gy
  IN IF sq >= 255 * 255 THEN 255 ELSE ISqrt(sq)

detectEdges(imageData, width, height) ==
  LET cells == [i \in 1..(width * height) |->
                  LET x == (i - 1) % width
                      y == (i - 1) \div width
                  IN IF x >= 1 /\ x < width - 1 /\ y >= 1 /\ y < height - 1
                     THEN EdgeValue(imageData, width, x, y)
                     ELSE 0] \o <<>>
  IN [i \in 0..(width * height - 1) |-> cells[i + 1]]

(***************************************************************************)
(* findSubjectRegion(edges, width, height).                                *)
(***************************************************************************)
\* a middle size taken between the two floored sizes
windowSizes_FlooredEnds(width, height) ==
  LET m == Min(width, height)
  IN <<(4 * m) \div 10, ((4 * m) \div 10 + (8 * m) \div 10) \div 2, (8 * m) \div 10>>
\* Math.floor(m * 0.4), Math.floor((m * 0.4 + m * 0.8) / 2), Math.floor(m * 0.8)
\* with m = Math.min(width, height); the doubles floor to these integers.
windowSizes(width, height) ==
  LET m == Min(width, height)
  IN <<(4 * m) \div 10, (6 * m) \div 10, (8 * m) \div 10>>

\* if (windowSize < 50 || windowSize > width || windowSize > height) continue;
Admissible(windowSize, width, height) ==
  ~(windowSize < MinWindow \/ windowSize > width \/ windowSize > height)

\* Math.max(5, Math.floor(windowSize / 8))
StepOf(windowSize) == Max(5, windowSize \div 8)

\* The cells visited by the two inner loops over wy, wx (indices into edges):
\* wy < y + windowSize && wy < height;  wx < x + windowSize && wx < width
WindowCells(width, height, x, y, windowSize) ==
  {wy * width + wx : wy \in y..(Min(y + windowSize, height) - 1),
                     wx \in x..(Min(x + windowSize, width) - 1)}

\* a cell equal to the threshold counted as strong
WindowStats_StrongAtThreshold(edges, width, height, x, y, windowSize) ==
  LET cells == WindowCells(width, height, x, y, windowSize)
  IN [edgeSum         |-> BagCardinality([c \in {k \in cells : edges[k] > 0} |-> edges[c]]),
      edgeCount       |-> Cardinality(cells),
      strongEdgeCount |-> Cardinality({c \in cells : edges[c] >= StrongEdgeThreshold})]
\* edgeSum += edgeValue; edgeCount++; if (edgeValue > 100) strongEdgeCount++
\* over those cells.  (BagCardinality adds up the values of a function with
\* positive values; cells that are 0 add nothing to the sum.)
WindowStats(edges, width, height, x, y, windowSize) ==
  LET cells == WindowCells(width, height, x, y, windowSize)
  IN [edgeSum         |-> BagCardinality([c \in {k \in cells : edges[k] > 0} |-> edges[c]]),
      edgeCount       |-> Cardinality(cells),
      strongEdgeCount |-> Cardinality({c \in cells : edges[c] > StrongEdgeThreshold})]

\* avgDensity * 0.4, in thousandths
DensityTerm(st) ==
  IF st.edgeCount > 0 THEN ScaledDiv(4 * st.edgeSum, st.edgeCount, 2) ELSE 0

\* strongEdgeRatio * 255 * 0.4, in thousandths
StrongTerm(st) ==
  IF st.edgeCount > 0 THEN ScaledDiv(102 * st.strongEdgeCount, st.edgeCount, 3) ELSE 0

\* centerWeight * 100 * 0.2 with
\* centerWeight = 1 - (distanceFromCenter / maxDistance) * 0.5, in thousandths.
\* distanceFromCenter^2 = ((2x + s - width)^2 + (2y + s - height)^2) / 4 and
\* maxDistance^2 = (width^2 + height^2) / 4.
CenterTerm(x, y, windowSize, width, height) ==
  LET dx == 2 * x + windowSize - width
      dy == 2 * y + windowSize - height
      d2 == dx * dx + dy * dy
      m2 == width * width + height * height
  IN 20000 - ISqrt(ScaledDiv(d2, m2, 8))

ScoreOf(st, x, y, windowSize, width, height) ==
  DensityTerm(st) + StrongTerm(st) + CenterTerm(x, y, windowSize, width, height)

\* a region placed at the mirror image of the window
PaddedRegion_Mirrored(x, y, windowSize, width, height) ==
  [x      |-> Max(0, width - x - windowSize - (windowSize * PADDING_PERCENT) \div 100),
   y      |-> Max(0, height - y - windowSize - (windowSize * PADDING_PERCENT) \div 100),
   width  |-> Min(width, (windowSize * (100 + 2 * PADDING_PERCENT)) \div 100),
   height |-> Min(height, (windowSize * (100 + 2 * PADDING_PERCENT)) \div 100)]
\* The region recorded for a window that becomes the best (lines 151-156).
PaddedRegion(x, y, windowSize, width, height) ==
  [x      |-> Max(0, x - (windowSize * PADDING_PERCENT) \div 100),
   y      |-> Max(0, y - (windowSize * PADDING_PERCENT) \div 100),
   width  |-> Min(width, (windowSize * (100 + 2 * PADDING_PERCENT)) \div 100),
   height |-> Min(height, (windowSize * (100 + 2 * PADDING_PERCENT)) \div 100)]

ZeroRegion == [x |-> 0, y |-> 0, width |-> 0, height |-> 0]

\* a search that starts from a score no centre term reaches
SearchStart_HighBar ==
  [maxScore |-> 30000, found |-> FALSE, bestRegion |-> [x |-> 0, y |-> 0, width |-> 0, height |-> 0],
   window |-> [x |-> 0, y |-> 0, size |-> 0], evaluated |-> 0, scored |-> <<>>]
\* let bestRegion = null; let maxScore = 0;  (window: the x, y, windowSize of
\* the iteration that last assigned bestRegion; evaluated: windows scored;
\* scored: those windows and their scores, in the order of the loops)
SearchStart ==
  [maxScore |-> 0, found |-> FALSE, bestRegion |-> ZeroRegion,
   window |-> [x |-> 0, y |-> 0, size |-> 0], evaluated |-> 0, scored |-> <<>>]

\* One iteration of the position loops: score the window, keep it if better.
Consider_LastWins(edges, width, height, windowSize, x, y, best) ==
  LET st    == WindowStats(edges, width, height, x, y, windowSize)
      score == ScoreOf(st, x, y, windowSize, width, height)
      log   == Append(best.scored, [x |-> x, y |-> y, size |-> windowSize, score |-> score])
  IN IF score >= best.maxScore
     THEN [maxScore |-> score, found |-> TRUE,
           bestRegion |-> PaddedRegion(x, y, windowSize, width, height),
           window |-> [x |-> x, y |-> y, size |-> windowSize],
           evaluated |-> best.evaluated + 1, scored |-> log]
     ELSE [best EXCEPT !.evaluated = @ + 1, !.scored = log]
\* if (score > maxScore) { maxScore = score; bestRegion = {...} }
Consider(edges, width, height, windowSize, x, y, best) ==
  LET st    == WindowStats(edges, width, height, x, y, windowSize)
      score == ScoreOf(st, x, y, windowSize, width, height)
      log   == Append(best.scored, [x |-> x, y |-> y, size |-> windowSize, score |-> score])
  IN IF score > best.maxScore
     THEN [maxScore |-> score, found |-> TRUE,
           bestRegion |-> PaddedRegion(x, y, windowSize, width, height),
           window |-> [x |-> x, y |-> y, size |-> windowSize],
           evaluated |-> best.evaluated + 1, scored |-> log]
     ELSE [best EXCEPT !.evaluated = @ + 1, !.scored = log]

\* for (let x = 0; x <= width - windowSize; x += step): the iterations
\* kLo..kHi (x = k * step), in order.  The range is halved to keep the
\* evaluation shallow; the test on first.evaluated (always true) only makes
\* the first half be evaluated before the second half starts.
RECURSIVE ScanX(_, _, _, _, _, _, _, _, _)
ScanX(edges, width, height, windowSize, step, y, kLo, kHi, best) ==
  IF kLo > kHi THEN best
  ELSE IF kLo = kHi THEN Consider(edges, width, height, windowSize, kLo * step, y, best)
  ELSE LET mid   == (kLo + kHi) \div 2
           first == ScanX(edges, width, height, windowSize, step, y, kLo, mid, best)
       IN IF first.evaluated >= 0
          THEN ScanX(edges, width, height, windowSize, step, y, mid + 1, kHi, first)
          ELSE first

\* the last k with k * step <= limit (none: -1)
LastIteration(limit, step) == IF limit < 0 THEN -1 ELSE limit \div step

\* for (let y = 0; y <= height - windowSize; y += step): the iterations
\* kLo..kHi (y = k * step), in order.
RECURSIVE ScanY(_, _, _, _, _, _, _, _)
ScanY(edges, width, height, windowSize, step, kLo, kHi, best) ==
  IF kLo > kHi THEN best
  ELSE IF kLo = kHi
       THEN ScanX(edges, width, height, windowSize, step, kLo * step,
                  0, LastIteration(width - windowSize, step), best)
  ELSE LET mid   == (kLo + kHi) \div 2
           first == ScanY(edges, width, height, windowSize, step, kLo, mid, best)
       IN IF first.evaluated >= 0
          THEN ScanY(edges, width, height, windowSize, step, mid + 1, kHi, first)
          ELSE first

RECURSIVE ScanSizes(_, _, _, _, _, _)
ScanSizes(edges, width, height, sizes, i, best) ==
  IF i > Len(sizes) THEN best
  ELSE IF ~Admissible(sizes[i], width, height)
       THEN ScanSizes(edges, width, height, sizes, i + 1, best)
       ELSE ScanSizes(edges, width, height, sizes, i + 1,
                      ScanY(edges, width, height, sizes[i], StepOf(sizes[i]),
                            0, LastIteration(height - sizes[i], StepOf(sizes[i])), best))

SearchWindows(edges, width, height) ==
  ScanSizes(edges, width, height, windowSizes(width, height), 1, SearchStart)

\* Math.floor(centerSize) with centerSize = Math.min(width, height) * 0.7.
\* The double m * 0.7 falls just below the integer 7m/10 for these m.
RoundsBelow07 == {90, 170, 180, 330, 340, 350, 360}
FloorCenterSize(m) == IF m \in RoundsBelow07 THEN (7 * m) \div 10 - 1 ELSE (7 * m) \div 10

\* if (!bestRegion || maxScore < 50): the centre crop
UseFallback(best) == ~best.found \/ best.maxScore < FallbackThresholdMilli

\* a centre crop that takes 70% of each axis
FallbackRegion_PerAxis(width, height) ==
  [x      |-> (3 * width) \div 20,
   y      |-> (3 * height) \div 20,
   width  |-> (7 * width) \div 10,
   height |-> (7 * height) \div 10]
\* Math.floor((width - centerSize) / 2): (10 * width - 7 * m) / 20 floored
FallbackRegion(width, height) ==
  LET m == Min(width, height)
  IN [x      |-> (10 * width - 7 * m) \div 20,
      y      |-> (10 * height - 7 * m) \div 20,
      width  |-> FloorCenterSize(m),
      height |-> FloorCenterSize(m)]

\* a square placed from the centre by its full side
SquareRegion_FullSide(bestRegion) ==
  [x      |-> Max(0, bestRegion.x + bestRegion.width \div 2
                     - Min(bestRegion.width, bestRegion.height)),
   y      |-> Max(0, bestRegion.y + bestRegion.height \div 2
                     - Min(bestRegion.width, bestRegion.height)),
   width  |-> Min(bestRegion.width, bestRegion.height),
   height |-> Min(bestRegion.width, bestRegion.height)]
\* "Ensure the region is square": size = min(width, height), recentred.
\* Math.floor(centerX - size / 2) with centerX = x + width / 2.
SquareRegion(bestRegion) ==
  LET size == Min(bestRegion.width, bestRegion.height)
  IN [x      |-> Max(0, (2 * bestRegion.x + bestRegion.width - size) \div 2),
      y      |-> Max(0, (2 * bestRegion.y + bestRegion.height - size) \div 2),
      width  |-> size,
      height |-> size]

RegionOf(best, width, height) ==
  IF UseFallback(best) THEN FallbackRegion(width, height) ELSE SquareRegion(best.bestRegion)

findSubjectRegion(edges, width, height) ==
  RegionOf(SearchWindows(edges, width, height), width, height)

(***************************************************************************)
(* SpecRegion: findSubjectRegion on a bounded family of edge maps.         *)
(* An edge map is a background value with one square hot spot              *)
(* (hot.size = 0: none); its cells are read as edges[wy * width + wx].     *)
(***************************************************************************)
VARIABLES rmap, rout
regionVars == <<rmap, rout>>

BaseDim == 63
HotSmall == 12
HotLarge == 40

MapDims ==
  {<<BaseDim, BaseDim>>, <<BaseDim + 7, BaseDim + 1>>, <<BaseDim + 1, BaseDim + 7>>,
   <<BaseDim - 1, BaseDim + 27>>}

\* maps without a hot spot: two windows at the same distance from the
\* centre, a side whose 70% is not exact in doubles, three window sizes
TieDims == {<<BaseDim + 6, BaseDim + 1>>}
RoundingDim == 90
TripleDim == 125
OddMidDim == 87
PlainDims ==
  TieDims \cup {<<RoundingDim, RoundingDim + 10>>, <<TripleDim, TripleDim>>,
                <<OddMidDim, OddMidDim>>}

HotValues == {StrongEdgeThreshold, 255}

\* top-left, top-right, bottom-left, bottom-right corner and the centre
HotSpots(width, height, size) ==
  {[x |-> p[1], y |-> p[2], size |-> size] :
     p \in {<<0, 0>>, <<width - size, 0>>, <<0, height - size>>,
            <<width - size, height - size>>,
            <<(width - size) \div 2, (height - size) \div 2>>}}

EdgeMaps ==
  UNION {
    {[width |-> d[1], height |-> d[2], bg |-> b, value |-> b,
      hot |-> [x |-> 0, y |-> 0, size |-> 0]] : b \in {0, 255}}
    \cup
    {[width |-> d[1], height |-> d[2], bg |-> 0, value |-> v, hot |-> h] :
       v \in HotValues,
       h \in HotSpots(d[1], d[2], HotSmall) \cup HotSpots(d[1], d[2], HotLarge)}
    : d \in MapDims}
  \cup
  {[width |-> d[1], height |-> d[2], bg |-> b, value |-> b,
    hot |-> [x |-> 0, y |-> 0, size |-> 0]] : d \in PlainDims, b \in {0, 255}}
  \cup
  {[width |-> TripleDim, height |-> TripleDim, bg |-> 0, value |-> 255, hot |-> h] :
     h \in {[x |-> 0, y |-> 0, size |-> HotLarge],
            [x |-> TripleDim - HotLarge, y |-> TripleDim - HotLarge, size |-> HotLarge]}}

InHot(m, wx, wy) ==
  /\ wx >= m.hot.x /\ wx < m.hot.x + m.hot.size
  /\ wy >= m.hot.y /\ wy < m.hot.y + m.hot.size

EdgesOf(m) ==
  LET cells == [i \in 1..(m.width * m.height) |->
                  IF InHot(m, (i - 1) % m.width, (i - 1) \div m.width)
                  THEN m.value ELSE m.bg] \o <<>>
  IN [i \in 0..(m.width * m.height - 1) |-> cells[i + 1]]

NoMap == [width |-> 0, height |-> 0, bg |-> 0, value |-> 0,
          hot |-> [x |-> 0, y |-> 0, size |-> 0]]
NoOut == [done |-> FALSE, best |-> SearchStart, region |-> ZeroRegion]

RegionIdle == rmap = NoMap /\ rout = NoOut

RegionInit == rmap \in EdgeMaps /\ rout = NoOut

\* one call findSubjectRegion(edges, width, height)
FindSubjectRegionCall ==
  /\ ~rout.done
  /\ rmap # NoMap
  /\ LET best == SearchWindows(EdgesOf(rmap), rmap.width, rmap.height)
     IN rout' = [done |-> TRUE, best |-> best,
                 region |-> RegionOf(best, rmap.width, rmap.height)]
  /\ UNCHANGED rmap

(***************************************************************************)
(* processImage: the box it extracts and the size it writes.               *)
(***************************************************************************)
NoBox == [x |-> 0, y |-> 0, width |-> 0, height |-> 0]

\* an extract set up for every source
NeedsCrop_Always(width, height) == TRUE
\* if (width !== height) { size = min(width, height); cropX = ...; cropY = ... }
NeedsCrop(width, height) == width # height

\* the square taken at the top-left corner
CropInfo_TopLeft(width, height) ==
  [x |-> 0, y |-> 0, width |-> Min(width, height), height |-> Min(width, height)]
\* cropX = Math.floor((width - size) / 2), cropY likewise; cropInfo
CropInfo(width, height) ==
  LET size == Min(width, height)
  IN [x      |-> (width - size) \div 2,
      y      |-> (height - size) \div 2,
      width  |-> size,
      height |-> size]

(***************************************************************************)
(* detectSubjectRegion(imagePath).                                         *)
(*                                                                         *)
(* A source file is [kind, width, height, scene].  kind "ok" decodes;      *)
(* "corrupt" makes image.metadata() reject; "truncated" has a readable     *)
(* header but makes toBuffer() reject.  The scene says what sharp's        *)
(* resize/greyscale/normalize pipeline yields for the file: a flat raster, *)
(* or a flat raster with one textured square (stripes two pixels wide of   *)
(* 0 and 255) at the start, the centre or the end of the longer axis.      *)
(***************************************************************************)
\* a scale that never enlarges
AnalysisLength_NoUpscale(v, width, height) ==
  IF Max(width, height) <= analysisSize THEN v
  ELSE (2 * analysisSize * v + Max(width, height)) \div (2 * Max(width, height))
\* Math.round(v * scale) with scale = Math.min(400 / width, 400 / height)
\*   = 400 / max(width, height):  floor((2 * 400 * v + M) / (2 * M)).
AnalysisLength(v, width, height) ==
  LET M == Max(width, height)
  IN (2 * analysisSize * v + M) \div (2 * M)

\* Math.round(v / scale):  floor((2 * v * M + 400) / (2 * 400)).
ScaleBack(v, width, height) ==
  LET M == Max(width, height)
  IN (2 * v * M + analysisSize) \div (2 * analysisSize)

\* sharp rejects resize(w, h) unless both are positive integers
ResizeAccepts(w, h) == w >= 1 /\ h >= 1

ObjectSide == 50

\* where the textured square of the scene lies in an aw x ah raster
ObjectAt(scene, aw, ah) ==
  LET side == Min(ObjectSide, Min(aw, ah))
      along(len) == CASE scene = "start"  -> 0
                      [] scene = "centre" -> (len - side) \div 2
                      [] scene = "end"    -> len - side
                      [] OTHER            -> 0
  IN [x |-> IF aw >= ah THEN along(aw) ELSE (aw - side) \div 2,
      y |-> IF aw >= ah THEN (ah - side) \div 2 ELSE along(ah),
      size |-> IF scene = "flat" THEN 0 ELSE side]

\* the raw greyscale buffer `data` of lines 33-38
AnalysisRaster(scene, aw, ah) ==
  LET o == ObjectAt(scene, aw, ah)
  IN [i \in 0..(aw * ah - 1) |->
        LET x == i % aw
            y == i \div aw
        IN IF x >= o.x /\ x < o.x + o.size /\ y >= o.y /\ y < o.y + o.size
           THEN (IF ((x - o.x) \div 2) % 2 = 0 THEN 0 ELSE 255)
           ELSE 0]

\* lines 47-52: the region scaled back to the source
ScaledBox(region, width, height) ==
  [x      |-> ScaleBack(region.x, width, height),
   y      |-> ScaleBack(region.y, width, height),
   width  |-> ScaleBack(region.width, width, height),
   height |-> ScaleBack(region.height, width, height)]

VARIABLES dfile, dpc, dmeta, dregion, dresult
detectVars == <<dfile, dpc, dmeta, dregion, dresult>>

FileKinds == {"ok", "corrupt", "truncated"}
Scenes == {"flat", "centre", "end"}

\* Source sizes whose longer side is 200, 400, 800 or 1200: for these the
\* double products of lines 28-30 and 48-51 round as the integer formulas do.
\* Two of them give an analysis raster wide enough for a 50-pixel window.
ThinSide == 63
Landscape == <<2 * analysisSize, 2 * ThinSide>>
Portrait == <<2 * ThinSide, 2 * analysisSize>>
SourceDims ==
  {Landscape, Portrait,
   <<analysisSize, ThinSide - 13>>, <<3 * analysisSize, 150>>, <<150, 3 * analysisSize>>,
   <<analysisSize \div 2, 20>>, <<3 * analysisSize, 1>>}

\* (the portrait source is drawn with its object at the end only)
ScenesOf(d) == IF d = Portrait THEN {"end"} ELSE Scenes

SourceFiles ==
  {f \in [kind : FileKinds, width : {d[1] : d \in SourceDims},
          height : {d[2] : d \in SourceDims}, scene : Scenes] :
     /\ <<f.width, f.height>> \in SourceDims
     /\ f.scene \in ScenesOf(<<f.width, f.height>>)}

NoFile == [kind |-> "none", width |-> 0, height |-> 0, scene |-> "flat"]
NoMeta == [width |-> 0, height |-> 0]
NoResult == [kind |-> "none", box |-> NoBox]

DetectIdle ==
  /\ dfile = NoFile /\ dpc = "idle" /\ dmeta = NoMeta
  /\ dregion = ZeroRegion /\ dresult = NoResult

DetectInit ==
  /\ dfile \in SourceFiles /\ dpc = "idle" /\ dmeta = NoMeta
  /\ dregion = ZeroRegion /\ dresult = NoResult

\* the catch block of lines 53-56: log and return null
DetectCaught == [kind |-> "null", box |-> NoBox]

\* const image = sharp(imagePath)
DetectCall ==
  /\ dpc = "idle" /\ dfile # NoFile
  /\ dpc' = "metadata"
  /\ UNCHANGED <<dfile, dmeta, dregion, dresult>>

\* const metadata = await image.metadata()
DetectMetadata ==
  /\ dpc = "metadata"
  /\ IF dfile.kind = "corrupt"
     THEN dpc' = "returned" /\ dresult' = DetectCaught /\ UNCHANGED dmeta
     ELSE /\ dpc' = "downscale"
          /\ dmeta' = [width |-> dfile.width, height |-> dfile.height]
          /\ UNCHANGED dresult
  /\ UNCHANGED <<dfile, dregion>>

\* const { data } = await image.resize(...).greyscale().normalize().raw().toBuffer(...)
DetectDownscale ==
  /\ dpc = "downscale"
  /\ LET aw == AnalysisLength(dmeta.width, dmeta.width, dmeta.height)
         ah == AnalysisLength(dmeta.height, dmeta.width, dmeta.height)
     IN IF dfile.kind = "truncated" \/ ~ResizeAccepts(aw, ah)
        THEN dpc' = "returned" /\ dresult' = DetectCaught
        ELSE dpc' = "analyse" /\ UNCHANGED dresult
  /\ UNCHANGED <<dfile, dmeta, dregion>>

\* detectEdges, findSubjectRegion and the scaled box that is returned
DetectAnalyse ==
  /\ dpc = "analyse"
  /\ LET aw     == AnalysisLength(dmeta.width, dmeta.width, dmeta.height)
         ah     == AnalysisLength(dmeta.height, dmeta.width, dmeta.height)
         data   == AnalysisRaster(dfile.scene, aw, ah)
         edges  == detectEdges(data, aw, ah)
         region == findSubjectRegion(edges, aw, ah)
     IN /\ dregion' = region
        /\ dresult' = [kind |-> "box", box |-> ScaledBox(region, dmeta.width, dmeta.height)]
  /\ dpc' = "returned"
  /\ UNCHANGED <<dfile, dmeta>>

(***************************************************************************)
(* Spec: the product upload handlers of server.js and processImageInPlace. *)
(*                                                                         *)
(* The uploads directory is a map from paths to file contents.  A path is  *)
(* <<n, suffix>>: n is the filename multer generated for an upload         *)
(* (product-<Date.now()>-<random>, line 30: two uploads may draw the same  *)
(* n) and suffix is "" or ".tmp".  Name 0 is a file uploaded before the    *)
(* run.  Node runs each handler and each promise continuation to its next  *)
(* await without interleaving: one action each.                            *)
(***************************************************************************)
VARIABLES fs, heap, products, req, inv
serverVars == <<fs, heap, products, req, inv>>

MaxRequests == 2
MaxNames == 2

Requests == 1..MaxRequests
Names == 1..MaxNames

\* the uploaded images: what sharp makes of the file and its pixel size
Images ==
  <<[kind |-> "ok", width |-> 1200, height |-> 800],
    [kind |-> "ok", width |-> 600, height |-> 600],
    [kind |-> "ok", width |-> 375, height |-> 500],
    [kind |-> "corrupt", width |-> 640, height |-> 480],
    [kind |-> "truncated", width |-> 640, height |-> 480]>>
ImageIds == 1..Len(Images)

ImagePath(n) == <<n, "">>

\* const tempPath = imagePath + '.tmp'
tempPath_Shared(imagePath) == <<0, ".tmp">>
tempPath_InPlace(imagePath) == imagePath
tempPath(imagePath) == <<imagePath[1], ".tmp">>

Paths == {<<n, s>> : n \in 0..MaxNames, s \in {"", ".tmp"}}

Absent == [kind |-> "absent", img |-> 0, width |-> 0, height |-> 0]
\* the bytes multer stored for image i
Original(i) ==
  [kind |-> "original", img |-> i, width |-> Images[i].width, height |-> Images[i].height]
\* a JPEG produced by the pipeline from image i
Jpeg(i, size) == [kind |-> "jpeg", img |-> i, width |-> size.width, height |-> size.height]
\* what an interrupted write leaves behind
Partial(i) == [kind |-> "partial", img |-> i, width |-> 0, height |-> 0]

\* image.metadata() resolves: the header can be read
HeaderReadable(c) ==
  \/ c.kind = "jpeg"
  \/ c.kind = "original" /\ Images[c.img].kind \in {"ok", "truncated"}

\* toBuffer() resolves: the pixels can be decoded
PixelsReadable(c) ==
  \/ c.kind = "jpeg"
  \/ c.kind = "original" /\ Images[c.img].kind = "ok"

\* sharp's resize(w, h, {fit}): the size of the result for a w0 x h0 input
Resized(w0, h0, w, h, fit) ==
  IF fit = "cover"
  THEN [width |-> w, height |-> h]
  ELSE \* "inside": the largest size within w x h that keeps the aspect ratio
       LET M == Max(w0 * h, h0 * w)
       IN IF M = w0 * h
          THEN [width |-> w, height |-> Max(1, (2 * h0 * w + w0) \div (2 * w0))]
          ELSE [width |-> Max(1, (2 * w0 * h + h0) \div (2 * h0)), height |-> h]

\* sharp's extract rejects an area that is not inside the image
ExtractAccepts(box, width, height) ==
  /\ box.x >= 0 /\ box.y >= 0 /\ box.width >= 1 /\ box.height >= 1
  /\ box.x + box.width <= width /\ box.y + box.height <= height

\* lines 198-226: extract (when not square), then
\* resize(TARGET_SIZE, TARGET_SIZE, {fit: 'cover'}).jpeg().toBuffer()
OutputSize_InsideNoCrop(width, height) ==
  Resized(width, height, TARGET_SIZE, TARGET_SIZE, "inside")
OutputSize(width, height) ==
  LET c == IF NeedsCrop(width, height) THEN CropInfo(width, height)
           ELSE [x |-> 0, y |-> 0, width |-> width, height |-> height]
  IN Resized(c.width, c.height, TARGET_SIZE, TARGET_SIZE, "cover")

\* processImage's catch block (lines 237-240): log, then `throw error`
ProcessImageCatch_Swallow == "rename"
ProcessImageCatch == "threw"

NoInv ==
  [pc |-> "idle", path |-> ImagePath(0), meta |-> NoMeta, cropped |-> FALSE,
   cropInfo |-> NoBox, out |-> Absent, failedAt |-> "none", stages |-> <<>>]

NoImage == -1
NaNId == -1
Hole == 0
NotSent == 0

NoReq ==
  [kind |-> "none", pc |-> "none", id |-> 0, mode |-> "plain", hasFile |-> FALSE,
   name |-> 0, img |-> 0, productIndex |-> 0, product |-> 0, status |-> NotSent,
   imageSet |-> NoImage, fileAtResponse |-> Absent]

\* products on start: product 1 has the processed image 0, product 2 has none
InitialHeap == <<[id |-> 1, image |-> 0], [id |-> 2, image |-> NoImage]>>

ServerIdle ==
  /\ fs = [p \in Paths |-> Absent]
  /\ heap = <<>> /\ products = <<>>
  /\ req = [r \in Requests |-> NoReq]
  /\ inv = [r \in Requests |-> NoInv]

ServerInit ==
  /\ fs = [p \in Paths |->
             IF p = ImagePath(0)
             THEN Jpeg(1, [width |-> TARGET_SIZE, height |-> TARGET_SIZE])
             ELSE Absent]
  /\ heap = InitialHeap
  /\ products = <<1, 2>>
  /\ req = [r \in Requests |-> NoReq]
  /\ inv = [r \in Requests |-> NoInv]

(***************************************************************************)
(* processImageInPlace(imagePath) for the upload of request r.             *)
(***************************************************************************)
\* an invocation that starts from what the previous one left behind
StartPipeline_KeepsLast(r, path) ==
  [inv[Max(1, r - 1)] EXCEPT !.pc = "metadata", !.path = path]
\* processImageInPlace is entered; processImage runs to `await image.metadata()`
StartPipeline(r, path) ==
  [NoInv EXCEPT !.pc = "metadata", !.path = path]

\* image.metadata() settles; on success the extract and resize are set up
\* (lines 198-226) and processImage waits for toBuffer()
Metadata(r) ==
  /\ inv[r].pc = "metadata"
  /\ LET c == fs[inv[r].path]
     IN IF HeaderReadable(c)
        THEN inv' = [inv EXCEPT ![r] =
                       [@ EXCEPT !.pc = "encode",
                                 !.meta = [width |-> c.width, height |-> c.height],
                                 !.cropped = NeedsCrop(c.width, c.height),
                                 !.cropInfo = IF NeedsCrop(c.width, c.height)
                                              THEN CropInfo(c.width, c.height) ELSE NoBox,
                                 !.stages = Append(@, "metadata")]]
        ELSE inv' = [inv EXCEPT ![r] =
                       [@ EXCEPT !.pc = ProcessImageCatch, !.failedAt = "metadata",
                                 !.stages = Append(@, "metadata")]]
  /\ UNCHANGED <<fs, heap, products, req>>

\* toBuffer() settles; on success fs.writeFileSync(outputPath, resized) runs
\* in the same continuation.  A failing write leaves the temp file as it
\* was (the open failed) or partly written.
WriteOutcomes == {"ok", "unopened", "partial"}

Encode(r, written) ==
  /\ inv[r].pc = "encode"
  /\ LET c    == fs[inv[r].path]
         m    == inv[r].meta
         ok   == /\ PixelsReadable(c)
                 /\ (inv[r].cropped => ExtractAccepts(inv[r].cropInfo, c.width, c.height))
         out  == Jpeg(c.img, OutputSize(m.width, m.height))
         temp == tempPath(inv[r].path)
     IN IF ~ok
        THEN /\ written = "ok"
             /\ inv' = [inv EXCEPT ![r] =
                          [@ EXCEPT !.pc = ProcessImageCatch, !.failedAt = "encode",
                                    !.stages = Append(@, "encode")]]
             /\ UNCHANGED fs
        ELSE IF written = "ok"
        THEN /\ inv' = [inv EXCEPT ![r] =
                          [@ EXCEPT !.pc = "rename", !.out = out,
                                    !.stages = @ \o <<"encode", "write">>]]
             /\ fs' = [fs EXCEPT ![temp] = out]
        ELSE /\ inv' = [inv EXCEPT ![r] =
                          [@ EXCEPT !.pc = ProcessImageCatch, !.out = out,
                                    !.failedAt = "write",
                                    !.stages = @ \o <<"encode", "write">>]]
             /\ fs' = [fs EXCEPT ![temp] = IF written = "partial" THEN Partial(c.img) ELSE @]
  /\ UNCHANGED <<heap, products, req>>

\* fs.renameSync(tempPath, imagePath); return imagePath.  It throws when the
\* temp file is missing or the file system refuses.
Rename(r, renamed) ==
  /\ inv[r].pc = "rename"
  /\ LET temp == tempPath(inv[r].path)
     IN IF renamed /\ fs[temp].kind # "absent"
        THEN /\ fs' = IF temp = inv[r].path THEN fs
                      ELSE [fs EXCEPT ![inv[r].path] = fs[temp], ![temp] = Absent]
             /\ inv' = [inv EXCEPT ![r] =
                          [@ EXCEPT !.pc = "returned", !.stages = Append(@, "rename")]]
        ELSE /\ inv' = [inv EXCEPT ![r] =
                          [@ EXCEPT !.pc = "threw", !.failedAt = "rename",
                                    !.stages = Append(@, "rename")]]
             /\ UNCHANGED fs
  /\ UNCHANGED <<heap, products, req>>

(***************************************************************************)
(* The handlers.  `products` is the array productsByUser[userEmail] of one *)
(* user: a sequence of references into `heap` (Hole where the JavaScript   *)
(* array has an empty slot).  getUserProducts returns the array itself,    *)
(* so a handler that resumes after an await sees the array as it is then,  *)
(* with the index and the product object it took before the await.         *)
(***************************************************************************)
MaxId == 3
ProductIds == 1..MaxId

\* request r is the r-th request to arrive
Arrives(r) == req[r].kind = "none" /\ (\A q \in 1..(r - 1) : req[q].kind # "none")

\* multer's diskStorage has stored the upload under the generated filename
\* before the handler runs (lines 25-33)
Stored(n, i) == [fs EXCEPT ![ImagePath(n)] = Original(i)]

\* userProducts.findIndex(p => p.id === productId): 0 for -1; reading p.id
\* of an empty slot throws a TypeError
RECURSIVE FindFrom(_, _, _, _)
FindFrom(prods, hp, id, i) ==
  IF i > Len(prods) THEN [index |-> 0, threw |-> FALSE]
  ELSE IF prods[i] = Hole THEN [index |-> 0, threw |-> TRUE]
  ELSE IF hp[prods[i]].id = id THEN [index |-> i, threw |-> FALSE]
  ELSE FindFrom(prods, hp, id, i + 1)
findIndex(prods, hp, id) == FindFrom(prods, hp, id, 1)

\* if (product.image && product.image.startsWith('/uploads/'))
\*   if (fs.existsSync(p)) fs.unlinkSync(p)
Unlinked(files, image) ==
  IF image # NoImage /\ files[ImagePath(image)].kind # "absent"
  THEN [files EXCEPT ![ImagePath(image)] = Absent]
  ELSE files

\* userProducts[productIndex] = product, on an array that may have shrunk
AssignAt(prods, index, oid) ==
  [i \in 1..Max(Len(prods), index) |->
     IF i = index THEN oid ELSE IF i <= Len(prods) THEN prods[i] ELSE Hole]

\* userProducts.splice(productIndex, 1)
Spliced(prods, index) ==
  [i \in 1..(Len(prods) - 1) |-> IF i < index THEN prods[i] ELSE prods[i + 1]]

\* userProducts.length > 0 ? Math.max(...userProducts.map(p => p.id)) + 1 : 1
NextId(prods, hp) ==
  IF Len(prods) = 0 THEN 1
  ELSE IF \E i \in 1..Len(prods) : prods[i] = Hole \/ hp[prods[i]].id = NaNId THEN NaNId
  ELSE 1 + CHOOSE m \in {hp[prods[i]].id : i \in 1..Len(prods)} :
             \A i \in 1..Len(prods) : hp[prods[i]].id <= m

Responded(q, status, image, files) ==
  [q EXCEPT !.pc = "done", !.status = status, !.imageSet = image,
            !.fileAtResponse = IF q.hasFile THEN files[ImagePath(q.name)] ELSE Absent]

NewRequest(kind, id, mode, hasFile, n, i) ==
  [NoReq EXCEPT !.kind = kind, !.pc = "awaiting", !.id = id, !.mode = mode,
                !.hasFile = hasFile, !.name = IF hasFile THEN n ELSE 0,
                !.img = IF hasFile THEN i ELSE 0]

\* the async handler rejected outside any try block: Express 4 leaves the
\* request unanswered, Express 5 routes the error to the error handler
CrashStatuses == {NotSent, 400, 500}

\* app.post('/api/products', upload.single('image'), ...) up to the await on
\* processImageInPlace, or to the response when no file came
Post(r, valid, hasFile, n, i) ==
  /\ Arrives(r)
  /\ LET q     == NewRequest("post", 0, "plain", hasFile, n, i)
         files == IF hasFile THEN Stored(n, i) ELSE fs
     IN IF ~valid
        THEN /\ req' = [req EXCEPT ![r] = Responded(q, 400, NoImage, files)]
             /\ fs' = files
             /\ UNCHANGED <<heap, products, inv>>
        ELSE IF hasFile
        THEN /\ req' = [req EXCEPT ![r] = q]
             /\ fs' = files
             /\ inv' = [inv EXCEPT ![r] = StartPipeline(r, ImagePath(n))]
             /\ UNCHANGED <<heap, products>>
        ELSE /\ heap' = Append(heap, [id |-> NextId(products, heap), image |-> NoImage])
             /\ products' = Append(products, Len(heap) + 1)
             /\ req' = [req EXCEPT ![r] = Responded(q, 201, NoImage, files)]
             /\ UNCHANGED <<fs, inv>>

\* the POST handler after the await: the try/catch around processImageInPlace
\* has absorbed a rejection; the product is pushed and answered with 201
PostResume_NoCatch(r) ==
  /\ req[r].kind = "post" /\ req[r].pc = "awaiting"
  /\ inv[r].pc \in {"returned", "threw"}
  /\ IF inv[r].pc = "threw"
     THEN /\ req' = [req EXCEPT ![r] = [@ EXCEPT !.pc = "crashed"]]
          /\ UNCHANGED <<heap, products>>
     ELSE /\ heap' = Append(heap, [id |-> NextId(products, heap), image |-> req[r].name])
          /\ products' = Append(products, Len(heap) + 1)
          /\ req' = [req EXCEPT ![r] = Responded(@, 201, req[r].name, fs)]
  /\ UNCHANGED <<fs, inv>>
PostResume(r) ==
  /\ req[r].kind = "post" /\ req[r].pc = "awaiting"
  /\ inv[r].pc \in {"returned", "threw"}
  /\ heap' = Append(heap, [id |-> NextId(products, heap), image |-> req[r].name])
  /\ products' = Append(products, Len(heap) + 1)
  /\ req' = [req EXCEPT ![r] = Responded(@, 201, req[r].name, fs)]
  /\ UNCHANGED <<fs, inv>>

PutModes == {"file", "remove", "plain"}

\* app.put('/api/products/:id', upload.single('image'), ...) up to the await
\* on processImageInPlace, or to the response
Put(r, valid, id, mode, n, i, crashStatus) ==
  /\ Arrives(r)
  /\ LET hasFile == mode = "file"
         q       == NewRequest("put", id, mode, hasFile, n, i)
         files   == IF hasFile THEN Stored(n, i) ELSE fs
         found   == findIndex(products, heap, id)
         oid     == products[found.index]
     IN IF ~valid
        THEN /\ req' = [req EXCEPT ![r] = Responded(q, 400, NoImage, files)]
             /\ fs' = files
             /\ UNCHANGED <<heap, products, inv>>
        ELSE IF found.threw
        THEN /\ req' = [req EXCEPT ![r] = [q EXCEPT !.pc = "crashed", !.status = crashStatus]]
             /\ fs' = files
             /\ UNCHANGED <<heap, products, inv>>
        ELSE IF found.index = 0
        THEN /\ req' = [req EXCEPT ![r] = Responded(q, 404, NoImage, files)]
             /\ fs' = files
             /\ UNCHANGED <<heap, products, inv>>
        ELSE IF mode = "file"
        THEN /\ fs' = Unlinked(files, heap[oid].image)
             /\ req' = [req EXCEPT ![r] = [q EXCEPT !.productIndex = found.index,
                                                    !.product = oid]]
             /\ inv' = [inv EXCEPT ![r] = StartPipeline(r, ImagePath(n))]
             /\ UNCHANGED <<heap, products>>
        ELSE /\ fs' = IF mode = "remove" THEN Unlinked(files, heap[oid].image) ELSE files
             /\ heap' = IF mode = "remove" THEN [heap EXCEPT ![oid].image = NoImage] ELSE heap
             /\ products' = AssignAt(products, found.index, oid)
             /\ req' = [req EXCEPT ![r] =
                          Responded([q EXCEPT !.productIndex = found.index, !.product = oid],
                                    200, heap'[oid].image, fs')]
             /\ UNCHANGED inv

\* the PUT handler after the await (lines 3643-3665): the inner try/catch has
\* absorbed a rejection; the image path is set and the product is written
\* back at the index taken before the await
PutResume(r) ==
  /\ req[r].kind = "put" /\ req[r].pc = "awaiting"
  /\ inv[r].pc \in {"returned", "threw"}
  /\ heap' = [heap EXCEPT ![req[r].product].image = req[r].name]
  /\ products' = AssignAt(products, req[r].productIndex, req[r].product)
  /\ req' = [req EXCEPT ![r] = Responded(@, 200, req[r].name, fs)]
  /\ UNCHANGED <<fs, inv>>

\* app.delete('/api/products/:id', ...): synchronous
Delete(r, valid, id) ==
  /\ Arrives(r)
  /\ LET q     == NewRequest("delete", id, "plain", FALSE, 0, 0)
         found == findIndex(products, heap, id)
         oid   == products[found.index]
     IN IF ~valid
        THEN /\ req' = [req EXCEPT ![r] = Responded(q, 400, NoImage, fs)]
             /\ UNCHANGED <<fs, heap, products, inv>>
        ELSE IF found.threw
        THEN \* a synchronous throw reaches the global error handler (line 3755)
             /\ req' = [req EXCEPT ![r] = Responded(q, 400, NoImage, fs)]
             /\ UNCHANGED <<fs, heap, products, inv>>
        ELSE IF found.index = 0
        THEN /\ req' = [req EXCEPT ![r] = Responded(q, 404, NoImage, fs)]
             /\ UNCHANGED <<fs, heap, products, inv>>
        ELSE /\ fs' = Unlinked(fs, heap[oid].image)
             /\ products' = Spliced(products, found.index)
             /\ req' = [req EXCEPT ![r] =
                          Responded([q EXCEPT !.productIndex = found.index, !.product = oid],
                                    200, NoImage, fs')]
             /\ UNCHANGED <<heap, inv>>

\* the request slot the next arrival takes
Arriving == {r \in Requests : Arrives(r)}

(***************************************************************************)
(* SpecEdges: detectEdges on a bounded family of greyscale rasters.        *)
(* A raster is a width, a height and a pattern that gives each byte.       *)
(***************************************************************************)
VARIABLES eraster, eout
edgeVars == <<eraster, eout>>

MaxSide == 4

Patterns == {"black", "white", "stepX", "stepY", "rampX", "mixed", "checker", "fade"}

\* imageData[y * width + x] of a raster: a byte
PixelOf(pattern, width, height, x, y) ==
  CASE pattern = "black"   -> 0
    [] pattern = "white"   -> 255
    [] pattern = "stepX"   -> IF 2 * x < width THEN 0 ELSE 255
    [] pattern = "stepY"   -> IF 2 * y < height THEN 0 ELSE 255
    [] pattern = "rampX"   -> (9 * x) % 256
    [] pattern = "mixed"   -> (37 * x + 101 * y * y) % 256
    [] pattern = "checker" -> ((x + y) % 2) * 255
    [] pattern = "fade"    -> (5 * x * x * x + 3 * y) % 256

Rasters ==
  [width : 0..MaxSide, height : 0..MaxSide, pattern : Patterns]

ImageDataOf(m) ==
  [i \in 0..(m.width * m.height - 1) |->
     PixelOf(m.pattern, m.width, m.height, i % m.width, i \div m.width)]

NoRaster == [width |-> 0, height |-> 0, pattern |-> "none"]
NoEdges == [done |-> FALSE, edges |-> <<>>]

EdgesIdle == eraster = NoRaster /\ eout = NoEdges

EdgesInit == eraster \in Rasters /\ eout = NoEdges

\* edges = detectEdges(imageData, width, height)
DetectEdgesCall ==
  /\ ~eout.done
  /\ eout' = [done |-> TRUE,
              edges |-> detectEdges(ImageDataOf(eraster), eraster.width, eraster.height)]
  /\ UNCHANGED eraster

(***************************************************************************)
(* SpecSizes: the two computations on the width and height of a source     *)
(* that do not look at its pixels: the analysis dimensions of              *)
(* detectSubjectRegion (lines 27-34) and the crop box of processImage      *)
(* (lines 199-215).  For the sizes drawn here the doubles of lines 28-30   *)
(* round as AnalysisLength does (they do not when the longer side is 928   *)
(* or 992).                                                                *)
(***************************************************************************)
VARIABLES ssource, sanalysis, scrop
sizeVars == <<ssource, sanalysis, scrop>>

MaxSmall == 12
SideValues == (1..MaxSmall) \cup {399, 400, 401, 799, 1200}
SourceSizes == [width : SideValues, height : SideValues]

NoSource == [width |-> 0, height |-> 0]
NoAnalysis == [done |-> FALSE, analysisWidth |-> 0, analysisHeight |-> 0, accepted |-> FALSE]
NoCrop == [done |-> FALSE, cropped |-> FALSE, cropInfo |-> NoBox]

SizesIdle == ssource = NoSource /\ sanalysis = NoAnalysis /\ scrop = NoCrop

SizesInit == ssource \in SourceSizes /\ sanalysis = NoAnalysis /\ scrop = NoCrop

\* analysisWidth, analysisHeight and whether resize takes them
AnalysisDims ==
  /\ ~sanalysis.done
  /\ LET aw == AnalysisLength(ssource.width, ssource.width, ssource.height)
         ah == AnalysisLength(ssource.height, ssource.width, ssource.height)
     IN sanalysis' = [done |-> TRUE, analysisWidth |-> aw, analysisHeight |-> ah,
                      accepted |-> ResizeAccepts(aw, ah)]
  /\ UNCHANGED <<ssource, scrop>>

\* let cropInfo = null; if (width !== height) { ... cropInfo = {...} }
CropToSquare ==
  /\ ~scrop.done
  /\ scrop' = IF NeedsCrop(ssource.width, ssource.height)
              THEN [done |-> TRUE, cropped |-> TRUE,
                    cropInfo |-> CropInfo(ssource.width, ssource.height)]
              ELSE [done |-> TRUE, cropped |-> FALSE, cropInfo |-> NoBox]
  /\ UNCHANGED <<ssource, sanalysis>>

vars == <<regionVars, detectVars, serverVars, edgeVars, sizeVars>>

\* findSubjectRegion alone
RegionFrame == UNCHANGED <<detectVars, serverVars, edgeVars, sizeVars>>
RegionNext == FindSubjectRegionCall /\ RegionFrame
RegionStart == RegionInit /\ DetectIdle /\ ServerIdle /\ EdgesIdle /\ SizesIdle
SpecRegion == RegionStart /\ [][RegionNext]_vars

\* detectSubjectRegion alone
DetectFrame == UNCHANGED <<regionVars, serverVars, edgeVars, sizeVars>>
DetectNext ==
  \/ DetectCall /\ DetectFrame
  \/ DetectMetadata /\ DetectFrame
  \/ DetectDownscale /\ DetectFrame
  \/ DetectAnalyse /\ DetectFrame
DetectStart == DetectInit /\ RegionIdle /\ ServerIdle /\ EdgesIdle /\ SizesIdle
SpecDetect == DetectStart /\ [][DetectNext]_vars

\* the server
ServerFrame == UNCHANGED <<regionVars, detectVars, edgeVars, sizeVars>>
Next ==
  \/ \E r \in Arriving, valid \in BOOLEAN, hasFile \in BOOLEAN, n \in Names, i \in ImageIds :
       Post(r, valid, hasFile, n, i) /\ ServerFrame
  \/ \E r \in Requests : PostResume(r) /\ ServerFrame
  \/ \E r \in Arriving, valid \in BOOLEAN, id \in ProductIds, mode \in PutModes,
        n \in Names, i \in ImageIds, s \in CrashStatuses :
       Put(r, valid, id, mode, n, i, s) /\ ServerFrame
  \/ \E r \in Requests : PutResume(r) /\ ServerFrame
  \/ \E r \in Arriving, valid \in BOOLEAN, id \in ProductIds :
       Delete(r, valid, id) /\ ServerFrame
  \/ \E r \in Requests : Metadata(r) /\ ServerFrame
  \/ \E r \in Requests, written \in WriteOutcomes : Encode(r, written) /\ ServerFrame
  \/ \E r \in Requests, renamed \in BOOLEAN : Rename(r, renamed) /\ ServerFrame
Init == ServerInit /\ RegionIdle /\ DetectIdle /\ EdgesIdle /\ SizesIdle
Spec == Init /\ [][Next]_vars

\* detectEdges alone
EdgesFrame == UNCHANGED <<regionVars, detectVars, serverVars, sizeVars>>
EdgesNext == DetectEdgesCall /\ EdgesFrame
EdgesStart == EdgesInit /\ RegionIdle /\ DetectIdle /\ ServerIdle /\ SizesIdle
SpecEdges == EdgesStart /\ [][EdgesNext]_vars

\* the size computations alone
SizesFrame == UNCHANGED <<regionVars, detectVars, serverVars, edgeVars>>
SizesNext ==
  \/ AnalysisDims /\ SizesFrame
  \/ CropToSquare /\ SizesFrame
SizesStart == SizesInit /\ RegionIdle /\ DetectIdle /\ ServerIdle /\ EdgesIdle
SpecSizes == SizesStart /\ [][SizesNext]_vars

(***************************************************************************)
(* Properties.                                                             *)
(***************************************************************************)
\* no other upload was stored under the filename of request r
Alone(r) ==
  \A q \in Requests \ {r} : ~(req[q].hasFile /\ req[q].name = req[r].name)

\* the invocation of request r is between its entry and its return or throw
Running(r) == inv[r].pc \in {"metadata", "encode", "rename"}

Inside(box, width, height) ==
  /\ box.x >= 0 /\ box.y >= 0
  /\ box.x + box.width <= width /\ box.y + box.height <= height

\* the elements of want occur in log, in that order
RECURSIVE InOrder(_, _)
InOrder(want, log) ==
  IF want = <<>> THEN TRUE
  ELSE IF log = <<>> THEN FALSE
  ELSE IF Head(want) = Head(log) THEN InOrder(Tail(want), Tail(log))
  ELSE InOrder(want, Tail(log))

NoRepeats(log) == \A i, j \in 1..Len(log) : log[i] = log[j] => i = j

\* C1: whatever the width and height of the source (square, landscape or
\* portrait), the raster a successful processImage / processImageInPlace
\* encodes, writes and moves into place is exactly TARGET_SIZE x TARGET_SIZE.
C1_OutputIsTargetSize ==
  \A r \in Requests :
    inv[r].pc \in {"rename", "returned"} =>
      /\ inv[r].out.kind = "jpeg"
      /\ inv[r].out.width = TARGET_SIZE
      /\ inv[r].out.height = TARGET_SIZE

C1_Witness ==
  \E r, q \in Requests :
    /\ inv[r].pc = "returned" /\ inv[r].meta.width > inv[r].meta.height
    /\ inv[q].pc = "returned" /\ inv[q].meta.width < inv[q].meta.height
    /\ fs[inv[q].path].width = TARGET_SIZE

\* C2: a step of processImageInPlace that fails (metadata, encode, temp
\* write or rename) leaves the file at imagePath as it was, which is the
\* uploaded original when no other upload shares the filename; the only step
\* of the invocation that changes imagePath is its successful rename, which
\* puts the temp file there, and that file is the completely written output.
C2_OriginalUntouchedOnFailure ==
  [][\A r \in Requests :
       (Running(r) /\ inv'[r] # inv[r]) =>
         LET path == inv[r].path
         IN /\ inv'[r].pc = "threw" =>
                 /\ fs'[path] = fs[path]
                 /\ Alone(r) => fs'[path] = Original(req[r].img)
            /\ fs'[path] # fs[path] =>
                 /\ inv[r].pc = "rename" /\ inv'[r].pc = "returned"
                 /\ fs'[path] = fs[tempPath(path)]
                 /\ Alone(r) => fs'[path] = inv[r].out /\ inv[r].out.kind = "jpeg"]_vars

C2_Witness ==
  \E r \in Requests :
    /\ inv[r].pc = "threw" /\ inv[r].failedAt = "write" /\ req[r].pc = "awaiting"
    /\ fs[tempPath(inv[r].path)].kind = "partial"
    /\ fs[inv[r].path] = Original(req[r].img)

\* C3 (refuted): the box processImage extracts from a non-square source is
\* the box detectSubjectRegion returns for that source.
C3_CropIsDetectedRegion ==
  (dpc = "returned" /\ dresult.kind = "box" /\ NeedsCrop(dmeta.width, dmeta.height)) =>
    CropInfo(dmeta.width, dmeta.height) = dresult.box

\* C4 (refuted): an invocation of processImageInPlace that has replaced the
\* original ran metadata, analysis downscale, edge map, region selection and
\* crop/encode, in that order.
PipelineStages == <<"metadata", "downscale", "edges", "region", "encode">>
C4_AllStagesInOrder ==
  \A r \in Requests : inv[r].pc = "returned" => InOrder(PipelineStages, inv[r].stages)

\* C5: when processImageInPlace threw in a POST or PUT upload whose filename
\* no other upload shares, the request is answered with 201 / 200, the
\* product's image is the uploaded filename and the file under that name is
\* the unprocessed upload.
C5_UploadSurvivesFailure ==
  \A r \in Requests :
    (req[r].hasFile /\ inv[r].pc = "threw" /\ req[r].pc # "awaiting" /\ Alone(r)) =>
      /\ req[r].pc = "done"
      /\ req[r].status = IF req[r].kind = "post" THEN 201 ELSE 200
      /\ req[r].imageSet = req[r].name
      /\ req[r].fileAtResponse = Original(req[r].img)

C5_Witness ==
  \E r, q \in Requests :
    /\ req[r].kind = "post" /\ req[r].pc = "done" /\ inv[r].pc = "threw"
    /\ req[q].kind = "put" /\ req[q].pc = "done" /\ inv[q].pc = "threw"
    /\ req[r].name # req[q].name

\* C6: a failure of any step of processImageInPlace ends the invocation with
\* a throw: the failed step is the last one it ran, no step ran twice and
\* the invocation did not go on to return normally.
C6_FailuresAreThrownOnce ==
  \A r \in Requests :
    /\ NoRepeats(inv[r].stages)
    /\ inv[r].failedAt # "none" =>
         /\ inv[r].pc = "threw"
         /\ inv[r].stages[Len(inv[r].stages)] = inv[r].failedAt
    /\ inv[r].pc = "threw" => inv[r].failedAt # "none"

C6_Witness ==
  \E r, q \in Requests :
    /\ inv[r].pc = "threw" /\ inv[r].failedAt = "encode"
    /\ inv[q].pc = "threw" /\ inv[q].failedAt = "rename"

\* C7 (refuted): when the source cannot be read or decoded,
\* detectSubjectRegion ends with a throw.
C7_DecodeFailurePropagates ==
  (dpc = "returned" /\ dfile.kind \in {"corrupt", "truncated"}) => dresult.kind = "threw"

\* C8 (refuted): the region findSubjectRegion returns lies inside the map.
C8_RegionInsideMap ==
  rout.done => Inside(rout.region, rmap.width, rmap.height)

\* C9: the region findSubjectRegion returns, from the window search or from
\* the centre fallback, has width = height.
C9_RegionIsSquare ==
  rout.done => rout.region.width = rout.region.height

C9_Witness ==
  /\ rout.done /\ rmap.width # rmap.height
  /\ UseFallback(rout.best)
  /\ rout.region.width = FloorCenterSize(Min(rmap.width, rmap.height))

\* C10 (refuted): the box detectSubjectRegion returns is the analysis region
\* with x, y, width and height each scaled back by the same factor and
\* rounded, and it lies inside the original image.
C10_BoxScaledAndInside ==
  (dpc = "returned" /\ dresult.kind = "box") =>
    /\ dresult.box = ScaledBox(dregion, dmeta.width, dmeta.height)
    /\ Inside(dresult.box, dmeta.width, dmeta.height)

\* C11: when the source is square, processImage sets up no extract
\* (cropInfo stays null) and the output it writes is TARGET_SIZE x
\* TARGET_SIZE, produced by one resize-and-encode of the source.
C11_SquareSourceIsOnlyResized ==
  \A r \in Requests :
    (inv[r].pc \in {"encode", "rename", "returned"}
       /\ inv[r].meta.width = inv[r].meta.height) =>
      /\ ~inv[r].cropped
      /\ inv[r].cropInfo = NoBox
      /\ inv[r].pc \in {"rename", "returned"} =>
           /\ inv[r].out.width = TARGET_SIZE /\ inv[r].out.height = TARGET_SIZE
           /\ Cardinality({k \in 1..Len(inv[r].stages) : inv[r].stages[k] = "encode"}) = 1

C11_Witness ==
  \E r \in Requests :
    /\ inv[r].pc = "returned" /\ inv[r].meta.width = inv[r].meta.height
    /\ inv[r].meta.width # TARGET_SIZE
    /\ fs[inv[r].path] = inv[r].out

\* what an invocation computed from its input and what it wrote
ResultOf(r) ==
  [meta |-> inv[r].meta, cropped |-> inv[r].cropped, cropInfo |-> inv[r].cropInfo,
   out |-> inv[r].out, stages |-> inv[r].stages,
   file |-> fs[inv[r].path]]

C13_DistinctPathsDoNotInterfere ==
  [][\A r \in Requests :
       /\ (Running(r) /\ inv'[r] # inv[r]) =>
            \A p \in Paths \ {inv[r].path, tempPath(inv[r].path)} : fs'[p] = fs[p]
       /\ (inv'[r].pc = "returned" /\ req'[r].pc = "awaiting" /\ Alone(r)') =>
            /\ fs'[inv'[r].path] =
                 Jpeg(req'[r].img, [width |-> TARGET_SIZE, height |-> TARGET_SIZE])
            /\ fs'[tempPath(inv'[r].path)] = Absent]_vars

C13_Witness ==
  \E r, q \in Requests :
    /\ req[r].name # req[q].name /\ req[r].img # req[q].img
    /\ inv[r].pc = "rename" /\ inv[q].pc = "returned" /\ req[q].pc = "awaiting"
    /\ fs[tempPath(inv[r].path)] = inv[r].out
    /\ fs[inv[q].path] = inv[q].out

\* C14 (refuted): no two uploads are stored under the same filename, so no
\* two processImageInPlace invocations have the same path.
C14_FilenamesUnique ==
  \A r, q \in Requests :
    (r # q /\ req[r].hasFile /\ req[q].hasFile) =>
      /\ req[r].name # req[q].name
      /\ (inv[r].pc # "idle" /\ inv[q].pc # "idle") => inv[r].path # inv[q].path

\* the cells of the first and last row and column of a width x height map
BorderCells(width, height) ==
  {i \in 0..(width * height - 1) :
     \/ i % width = 0 \/ i % width = width - 1
     \/ i \div width = 0 \/ i \div width = height - 1}

ZeroMap == rmap.bg = 0 /\ rmap.hot.size = 0

\* the map is 0 except one square of strong edges
StrongHotSpot == rmap.bg = 0 /\ rmap.hot.size > 0 /\ rmap.value > StrongEdgeThreshold

Scored == {rout.best.scored[k] : k \in 1..Len(rout.best.scored)}

\* the centre square of side 0.7 * min(W, H), in exact arithmetic
CentreSquare(width, height) ==
  LET m == Min(width, height)
  IN [x      |-> (10 * width - 7 * m) \div 20,
      y      |-> (10 * height - 7 * m) \div 20,
      width  |-> (7 * m) \div 10,
      height |-> (7 * m) \div 10]

Overlaps(box, hot) ==
  /\ box.x < hot.x + hot.size /\ hot.x < box.x + box.width
  /\ box.y < hot.y + hot.size /\ hot.y < box.y + box.height

\* C16 (refuted): on a map that is 0 everywhere no window scores 50 or more
\* and findSubjectRegion returns the centre region of side
\* floor(0.7 * min(W, H)).
C16_ZeroMapGivesCentreRegion ==
  (rout.done /\ ZeroMap) =>
    /\ \A w \in Scored : w.score < FallbackThresholdMilli
    /\ rout.region.width = (7 * Min(rmap.width, rmap.height)) \div 10
    /\ rout.region.height = rout.region.width

\* C17 (as stated, refuted): on a map that is 0 except one square hot spot
\* of strong edges, the returned region overlaps the hot spot.
C17_RegionOverlapsHotSpot ==
  (rout.done /\ StrongHotSpot) => Overlaps(rout.region, rmap.hot)

\* C17 (amended): on such a map, when the best window scores 50 or more,
\* that window and the returned region overlap the hot spot; otherwise the
\* centre fallback is returned, wherever the hot spot is.
C17_RegionOverlapsHotSpotUnlessFallback ==
  (rout.done /\ StrongHotSpot) =>
    IF UseFallback(rout.best)
    THEN rout.region = FallbackRegion(rmap.width, rmap.height)
    ELSE /\ Overlaps(rout.region, rmap.hot)
         /\ Overlaps([x |-> rout.best.window.x, y |-> rout.best.window.y,
                      width |-> rout.best.window.size, height |-> rout.best.window.size],
                     rmap.hot)

C17_Witness ==
  /\ rout.done /\ StrongHotSpot /\ ~UseFallback(rout.best)
  /\ rmap.width = TripleDim /\ rmap.hot.x > 0
  /\ Overlaps(rout.region, rmap.hot)

\* C18 (refuted): findSubjectRegion returns the centre region (side
\* floor(0.7 * min), x = floor((W - 0.7 * min) / 2), y likewise) exactly
\* when no evaluated window scores 50 or more, none evaluated included, and
\* the region of the best window otherwise.
C18_FallbackExactlyBelowThreshold ==
  rout.done =>
    IF \A w \in Scored : w.score < FallbackThresholdMilli
    THEN rout.region = CentreSquare(rmap.width, rmap.height)
    ELSE /\ rout.best.found
         /\ rout.region = SquareRegion(PaddedRegion(rout.best.window.x, rout.best.window.y,
                                                    rout.best.window.size,
                                                    rmap.width, rmap.height))

\* the windows scored by the search, in the order they were scored
Log == rout.best.scored

\* scan order: smaller window size first, then smaller y, then smaller x
Before(v, w) ==
  \/ v.size < w.size
  \/ v.size = w.size /\ v.y < w.y
  \/ v.size = w.size /\ v.y = w.y /\ v.x < w.x

\* C19: the window chosen by findSubjectRegion has the maximum score of all
\* evaluated windows and is the first, in scan order (size, then y, then
\* x), of the windows with that score.
C19_BestIsFirstMaximum ==
  (rout.done /\ Len(Log) > 0) =>
    /\ rout.best.found
    /\ \A j \in 1..(Len(Log) - 1) : Before(Log[j], Log[j + 1])
    /\ \E k \in 1..Len(Log) :
         /\ rout.best.window = [x |-> Log[k].x, y |-> Log[k].y, size |-> Log[k].size]
         /\ rout.best.maxScore = Log[k].score
         /\ \A j \in 1..Len(Log) : Log[j].score <= Log[k].score
         /\ \A j \in 1..(k - 1) : Log[j].score < Log[k].score

\* two windows tie at the maximum
C19_Witness ==
  /\ rout.done
  /\ \E j, k \in 1..Len(Log) :
       j < k /\ Log[j].score = rout.best.maxScore /\ Log[k].score = rout.best.maxScore

EvaluatedWindows == {[x |-> Log[k].x, y |-> Log[k].y, size |-> Log[k].size] : k \in 1..Len(Log)}

\* the windows of the sizes s >= 50, s <= W, s <= H at the multiples of
\* max(5, floor(s / 8)) that leave the window inside the map
WindowsOfSizes(sizes, width, height) ==
  UNION {{[x |-> x, y |-> y, size |-> s] :
            x \in {i \in 0..(width - s) : i % Max(5, s \div 8) = 0},
            y \in {i \in 0..(height - s) : i % Max(5, s \div 8) = 0}} :
         s \in {z \in sizes : z >= MinWindow /\ z <= width /\ z <= height}}

AllInside ==
  \A w \in EvaluatedWindows :
    /\ 0 <= w.x /\ w.x + w.size <= rmap.width
    /\ 0 <= w.y /\ w.y + w.size <= rmap.height

\* C20 (as stated, refuted): the evaluated windows are exactly those of the
\* sizes floor(0.4m), the midpoint of that and floor(0.8m), and floor(0.8m),
\* at the multiples of the step, and all lie inside the map.
C20_WindowsOfFlooredMidpoint ==
  rout.done =>
    LET m  == Min(rmap.width, rmap.height)
        lo == (4 * m) \div 10
        hi == (8 * m) \div 10
    IN /\ EvaluatedWindows = WindowsOfSizes({lo, (lo + hi) \div 2, hi}, rmap.width, rmap.height)
       /\ AllInside

\* C20 (amended): the middle size is floor(0.6m), the floor of the midpoint
\* of 0.4m and 0.8m before they are floored.
C20_WindowsOfThreeSizes ==
  rout.done =>
    LET m == Min(rmap.width, rmap.height)
    IN /\ EvaluatedWindows =
            WindowsOfSizes({(4 * m) \div 10, (6 * m) \div 10, (8 * m) \div 10},
                           rmap.width, rmap.height)
       /\ AllInside

C20_Witness ==
  /\ rout.done /\ rmap.width = OddMidDim
  /\ \E w \in EvaluatedWindows : w.size = (6 * OddMidDim) \div 10 /\ w.x > 0 /\ w.y > 0

\* the number of cells of window w that lie in the hot spot of the map
Shared(lo, len, hotLo, hotLen) == Max(0, Min(lo + len, hotLo + hotLen) - Max(lo, hotLo))
HotCellsIn(w) ==
  Shared(w.x, w.size, rmap.hot.x, rmap.hot.size) * Shared(w.y, w.size, rmap.hot.y, rmap.hot.size)

\* the sum of the s * s cells of window w and the number of them above 100,
\* from the description of the map
SumIn(w) == HotCellsIn(w) * rmap.value + (w.size * w.size - HotCellsIn(w)) * rmap.bg
StrongIn(w) ==
  (IF rmap.value > 100 THEN HotCellsIn(w) ELSE 0)
  + (IF rmap.bg > 100 THEN w.size * w.size - HotCellsIn(w) ELSE 0)

\* 0.2 * centerWeight * 100 in thousandths, with centerWeight =
\* 1 - 0.5 * (distance of the window centre from the map centre)
\*           / (distance of the map corner from the map centre)
CentreShare(w) ==
  LET dx == 2 * w.x + w.size - rmap.width
      dy == 2 * w.y + w.size - rmap.height
  IN 20000 - ISqrt(ScaledDiv(dx * dx + dy * dy,
                             rmap.width * rmap.width + rmap.height * rmap.height, 8))

\* C21: every evaluated s x s window scores 0.4 * avgDensity
\* + 0.4 * strongEdgeRatio * 255 + 0.2 * centerWeight * 100, the mean and the
\* ratio taken over its s * s cells, a cell counting as strong only above
\* 100, and centerWeight lying in [0.5, 1].
C21_ScoreIsWeightedSum ==
  rout.done =>
    \A k \in 1..Len(Log) :
      LET w == Log[k]
          n == w.size * w.size
      IN /\ w.score = ScaledDiv(4 * SumIn(w), n, 2) + ScaledDiv(102 * StrongIn(w), n, 3)
                      + CentreShare(w)
         /\ CentreShare(w) >= 10000 /\ CentreShare(w) <= 20000

\* a window that holds part of a hot spot whose cells equal 100
C21_Witness ==
  /\ rout.done /\ rmap.value = 100 /\ rmap.bg = 0
  /\ \E k \in 1..Len(Log) :
       /\ HotCellsIn(Log[k]) > 0 /\ HotCellsIn(Log[k]) < Log[k].size * Log[k].size
       /\ Log[k].score < 20000 + 400 /\ Log[k].score > 10000

\* the byte of the raster at column x, row y
Pixel(x, y) == PixelOf(eraster.pattern, eraster.width, eraster.height, x, y)

\* the 3x3 neighbourhood of (x, y) weighted by [-1,0,1,-2,0,2,-1,0,1]
Gx(x, y) ==
  (Pixel(x + 1, y - 1) + 2 * Pixel(x + 1, y) + Pixel(x + 1, y + 1))
  - (Pixel(x - 1, y - 1) + 2 * Pixel(x - 1, y) + Pixel(x - 1, y + 1))

\* the 3x3 neighbourhood of (x, y) weighted by [-1,-2,-1,0,0,0,1,2,1]
Gy(x, y) ==
  (Pixel(x - 1, y + 1) + 2 * Pixel(x, y + 1) + Pixel(x + 1, y + 1))
  - (Pixel(x - 1, y - 1) + 2 * Pixel(x, y - 1) + Pixel(x + 1, y - 1))

SquaredMagnitude(x, y) == Gx(x, y) * Gx(x, y) + Gy(x, y) * Gy(x, y)

Interior ==
  {p \in (1..(eraster.width - 2)) \X (1..(eraster.height - 2)) : TRUE}

EdgeAt(p) == eout.edges[p[2] * eraster.width + p[1]]

\* C22 (as stated, refuted): every interior cell of the edge map equals
\* clamp(sqrt(Gx^2 + Gy^2), 0, 255).
C22_CellIsClampedMagnitude ==
  eout.done =>
    \A p \in Interior :
      IF SquaredMagnitude(p[1], p[2]) >= 255 * 255
      THEN EdgeAt(p) = 255
      ELSE EdgeAt(p) * EdgeAt(p) = SquaredMagnitude(p[1], p[2])

\* C22 (amended): every interior cell of the edge map equals
\* clamp(sqrt(Gx^2 + Gy^2), 0, 255) with its fraction dropped.
C22_CellIsTruncatedMagnitude ==
  eout.done =>
    \A p \in Interior :
      IF SquaredMagnitude(p[1], p[2]) >= 255 * 255
      THEN EdgeAt(p) = 255
      ELSE /\ EdgeAt(p) >= 0
           /\ EdgeAt(p) * EdgeAt(p) <= SquaredMagnitude(p[1], p[2])
           /\ SquaredMagnitude(p[1], p[2]) < (EdgeAt(p) + 1) * (EdgeAt(p) + 1)

\* an interior cell whose magnitude is below 255 and not a whole number,
\* with both gradients present
C22_Witness ==
  /\ eout.done
  /\ \E p \in Interior :
       /\ Gx(p[1], p[2]) # 0 /\ Gy(p[1], p[2]) # 0
       /\ SquaredMagnitude(p[1], p[2]) < 255 * 255
       /\ EdgeAt(p) * EdgeAt(p) < SquaredMagnitude(p[1], p[2])

\* a is x rounded to the nearest integer, halves up, for x = num / den
IsRounded(a, num, den) == 2 * a * den <= 2 * num + den /\ 2 * num + den < 2 * (a + 1) * den

WinningWindow ==
  [x |-> rout.best.window.x, y |-> rout.best.window.y,
   width |-> rout.best.window.size, height |-> rout.best.window.size]
Expanded ==
  [x      |-> rout.best.window.x - rout.best.window.size \div 10,
   y      |-> rout.best.window.y - rout.best.window.size \div 10,
   width  |-> (12 * rout.best.window.size) \div 10,
   height |-> (12 * rout.best.window.size) \div 10]

Contains(outer, inner) ==
  /\ outer.x <= inner.x /\ inner.x + inner.width <= outer.x + outer.width
  /\ outer.y <= inner.y /\ inner.y + inner.height <= outer.y + outer.height

\* C24 (refuted): without fallback the returned region is the winning
\* window expanded by 10% of its side on each side, changed only where the
\* expanded box would leave the map; it lies inside the map and contains
\* the winning window.
C24_RegionIsExpandedWindow ==
  (rout.done /\ ~UseFallback(rout.best)) =>
    /\ rout.region.width = Expanded.width /\ rout.region.height = Expanded.height
    /\ Inside(Expanded, rmap.width, rmap.height) => rout.region = Expanded
    /\ Inside(rout.region, rmap.width, rmap.height)
    /\ Contains(rout.region, WinningWindow)

\* C26: every evaluated window scores more than 0, at least the 10 points
\* of the centre term, so a window is recorded as soon as one is evaluated;
\* bestRegion is null after the search exactly when no window size is
\* admissible, that is when floor(0.8 * min(W, H)) < 50.
C26_BestIsNullOnlyWithoutWindows ==
  rout.done =>
    /\ \A k \in 1..Len(Log) : Log[k].score > 0 /\ Log[k].score >= 10000
    /\ Len(Log) > 0 => rout.best.found /\ rout.best.maxScore >= Log[1].score
    /\ ~rout.best.found <=> (8 * Min(rmap.width, rmap.height)) \div 10 < 50

\* a map at least 50 wide and high on which no window size is admissible
C26_Witness ==
  /\ rout.done /\ ~rout.best.found /\ Len(Log) = 0
  /\ Min(rmap.width, rmap.height) >= 50

\* C27: the padded region recorded for any window of side s is a square of
\* side floor(1.2 * s), the minimum with W and H not binding, so the
\* force-square step returns it with the same x, y and size.
C27_PaddedRegionIsAlreadySquare ==
  rout.done =>
    /\ \A k \in 1..Len(Log) :
         LET padded == PaddedRegion(Log[k].x, Log[k].y, Log[k].size, rmap.width, rmap.height)
         IN /\ padded.width = (12 * Log[k].size) \div 10
            /\ padded.height = padded.width
            /\ padded.width <= rmap.width /\ padded.width <= rmap.height
    /\ ~UseFallback(rout.best) =>
         /\ rout.region = rout.best.bestRegion
         /\ rout.region.width = (12 * rout.best.window.size) \div 10

\* a region taken from a window away from the left and top edges
C27_Witness ==
  /\ rout.done /\ ~UseFallback(rout.best)
  /\ rout.best.bestRegion.x > 0 /\ rout.best.bestRegion.y > 0
  /\ rout.region = rout.best.bestRegion

\* C28 (refuted): for every source at least 1 x 1 both analysis dimensions
\* are at least 1, so the analysis raster is never empty.
C28_AnalysisDimsAtLeastOne ==
  (sanalysis.done /\ ssource.width >= 1 /\ ssource.height >= 1) =>
    /\ sanalysis.analysisWidth >= 1 /\ sanalysis.analysisHeight >= 1
    /\ sanalysis.accepted

Listed == {products[i] : i \in 1..Len(products)}

\* C25 (refuted): when a PUT with an image upload and a DELETE that arrived
\* while the PUT was or could be suspended have both completed, the PUT has
\* changed only its own product: the deleted product is not in the array
\* again, no slot is empty, no product is listed twice and every product
\* that was not deleted is still listed.
C25_PutWritesOnlyItsProduct ==
  \A r, q \in Requests :
    (/\ r < q
     /\ req[r].kind = "put" /\ req[r].mode = "file" /\ req[r].pc = "done" /\ req[r].status = 200
     /\ req[q].kind = "delete" /\ req[q].pc = "done" /\ req[q].status = 200) =>
      /\ req[q].product \notin Listed
      /\ Hole \notin Listed
      /\ \A i, j \in 1..Len(products) : products[i] = products[j] => i = j
      /\ \A p \in 1..Len(InitialHeap) : p # req[q].product => p \in Listed

\* C30 (refuted): once processImageInPlace(imagePath) has returned or
\* thrown, at whatever step, no file is at imagePath + '.tmp' (for an
\* upload whose filename no other upload shares).
C30_NoTempFileLeft ==
  \A r \in Requests :
    (inv[r].pc \in {"returned", "threw"} /\ Alone(r)) =>
      fs[tempPath(inv[r].path)].kind = "absent"
====
